---- MODULE Spec2Model ----
(***************************************************************************)
(* A model of the slot-discovery client of playtomic-agent:                *)
(* PlaytomicClient.get_club, get_available_slots, filter_slots and         *)
(* find_slots (client/api.py), the Club/Court/Slot models (models.py),     *)
(* create_booking_link (client/utils.py), _print_results, the agent tools  *)
(* find_slots, find_clubs_by_name and find_clubs_by_location (tools.py),   *)
(* the command line (client/cli.py), the request context (context.py) and  *)
(* the input of the chat endpoint (api.py).                                *)
(*                                                                         *)
(* Every operation is synchronous; the only state that outlives a call is  *)
(* the request context, which set_request_region sets before a tool runs.  *)
(* A behaviour is one call, drawn with its arguments by Init.  A call      *)
(* runs in one action up to each outbound request; the remote API is the   *)
(* environment, and the action that continues the call draws the response. *)
(* The log of the requests the call issued, each with the response it got, *)
(* and what the call printed are part of the state.                        *)
(*                                                                         *)
(* Encodings.  An Optional[str] is the string itself or None.  An          *)
(* Optional[int] is the empty set (None) or a singleton set.  A clock      *)
(* time "HH:MM" is its number of minutes after midnight, 0 .. 1439.        *)
(***************************************************************************)
EXTENDS Integers, Sequences, FiniteSets, TLC

VARIABLES
    op,         \* the operation that is called
    args,       \* the arguments of the call
    pc,         \* where the call stands: "call", "await_tenants",
                \* "await_availability", "await_geocode", "await_search",
                \* "await_agent" or "done"
    local_club, \* the Club that get_club returned to the call, or Nothing
    ret,        \* the outcome: Pending, a returned value or a raised error
    requests,   \* the outbound requests the call issued so far, in order,
                \* each with the response it got
    stdout,     \* what the call printed: the courts, each with its lines
    session,    \* the HTTP session of the call's client: "none" before the
                \* client is constructed, then "open", then "closed"
    context     \* the request context: the values of the context
                \* variables country, language and timezone

vars == <<op, args, pc, local_club, ret, requests, stdout, session, context>>

-----------------------------------------------------------------------------
(* Bounds of the model *)

MaxCourts == 2      \* courts per club
MaxSlots == 2       \* slots in an input list of filter_slots

-----------------------------------------------------------------------------
(* Values *)

None == "None"

\* None where the value, when there is one, is an object (a record)
Nothing == [none |-> TRUE]

\* Python truthiness of an Optional[str]: None and "" are falsy
Truthy(s) == s # None /\ s # ""

\* Optional[int]
NoInt == {}
SomeInt(n) == {n}

Range(s) == {s[i] : i \in DOMAIN s}

\* all sequences over S of length 0 .. n
SeqsUpTo(S, n) == UNION {[1..k -> S] : k \in 0..n}

\* s is a subsequence of t: s is t with some elements left out
RECURSIVE IsSubseq(_, _)
IsSubseq(s, t) ==
    IF s = <<>> THEN TRUE
    ELSE IF t = <<>> THEN FALSE
    ELSE IF Head(s) = Head(t) THEN IsSubseq(Tail(s), Tail(t))
    ELSE IsSubseq(s, Tail(t))

TheDate == "2026-02-15"
Dates == {TheDate, "2026-02-16"}
TheClubId == "tenant-1"

KnownCourtIds == {"court-1", "court-2"}
CourtIds == KnownCourtIds \cup {"court-9"}
CourtTypes == {"single", "double"}
CourtTypeArgs == {None, "SINGLE", "DOUBLE"}
Durations == {60, 90}
DurationArgs == {NoInt} \cup {SomeInt(d) : d \in Durations}

CourtName(id) ==
    CASE id = "court-1" -> "Court 1"
      [] id = "court-2" -> "Court 2"
      [] OTHER -> "Court 9"

PriceOf(d) == IF d = 60 THEN "18.00 EUR" ELSE "25.00 EUR"

\* models.Court
Court(id, name, type) == [id |-> id, name |-> name, type |-> type]

\* models.Club
Club(slug, name, club_id, timezone, courts) ==
    [slug |-> slug, name |-> name, club_id |-> club_id,
     timezone |-> timezone, courts |-> courts]

\* models.Slot; time is the UTC datetime [date, hh, mm, ss]
Slot(club_id, court_id, court_name, time, duration, price) ==
    [club_id |-> club_id, court_id |-> court_id, court_name |-> court_name,
     time |-> time, duration |-> duration, price |-> price]

\* models.AvailableSlots
AvailableSlots(club_id, date, slots) ==
    [club_id |-> club_id, date |-> date, slots |-> slots]

-----------------------------------------------------------------------------
(* models.Club *)

RECURSIVE get_court_by_id(_, _)
get_court_by_id(courts, court_id) ==
    IF courts = <<>> THEN Nothing
    ELSE IF Head(courts).id = court_id THEN Head(courts)
    ELSE get_court_by_id(Tail(courts), court_id)

get_court_by_type_anytype(club, court_type) == club.courts

get_court_by_type(club, court_type) ==
    SelectSeq(club.courts, LAMBDA court : court.type = court_type)

-----------------------------------------------------------------------------
(* PlaytomicClient.filter_slots *)

target_court_ids_swapped(club, court_type) ==
    IF court_type = "SINGLE"
    THEN {court.id : court \in Range(get_court_by_type(club, "double"))}
    ELSE IF court_type = "DOUBLE"
    THEN {court.id : court \in Range(get_court_by_type(club, "double"))}
    ELSE {court.id : court \in Range(club.courts)}

target_court_ids(club, court_type) ==
    IF court_type = "SINGLE"
    THEN {court.id : court \in Range(get_court_by_type(club, "single"))}
    ELSE IF court_type = "DOUBLE"
    THEN {court.id : court \in Range(get_court_by_type(club, "double"))}
    ELSE {court.id : court \in Range(club.courts)}

\* the loop over available_slots; filtered is the list built so far
RECURSIVE filter_loop(_, _, _, _)
filter_loop(slots, target, duration, filtered) ==
    IF slots = <<>> THEN filtered
    ELSE LET slot == Head(slots) IN
         IF slot.court_id \notin target
         THEN filter_loop(Tail(slots), target, duration, filtered)
         ELSE IF duration # NoInt /\ slot.duration \notin duration
         THEN filter_loop(Tail(slots), target, duration, filtered)
         ELSE filter_loop(Tail(slots), target, duration, Append(filtered, slot))

filter_slots_at_least(club, available_slots, court_type, duration) ==
    SelectSeq(available_slots,
              LAMBDA slot : /\ slot.court_id \in target_court_ids(club, court_type)
                            /\ \A d \in duration : slot.duration >= d)

filter_slots_one_filter(club, available_slots, court_type, duration) ==
    filter_loop(available_slots, target_court_ids(club, court_type),
                IF court_type = None THEN duration ELSE NoInt, <<>>)

filter_slots(club, available_slots, court_type, duration) ==
    filter_loop(available_slots, target_court_ids(club, court_type), duration, <<>>)

-----------------------------------------------------------------------------
(* The inputs of filter_slots *)

Courts == {Court(id, CourtName(id), t) : id \in KnownCourtIds, t \in CourtTypes}

FilterClubs ==
    {Club("lemon-padel-club", "Lemon Padel Club", TheClubId, "Europe/Berlin", cs) :
        cs \in SeqsUpTo(Courts, MaxCourts)}

DateTime(date, hh, mm, ss) == [date |-> date, hh |-> hh, mm |-> mm, ss |-> ss]

FilterSlotValues ==
    {Slot(TheClubId, id,
          IF id \in KnownCourtIds THEN CourtName(id) ELSE "Unknown Court",
          DateTime(TheDate, 10, 0, 0), d, PriceOf(d)) : id \in CourtIds, d \in Durations}

FilterSlotLists == SeqsUpTo(FilterSlotValues, MaxSlots)

-----------------------------------------------------------------------------
(* Outcomes of a call *)

Pending == [kind |-> "pending"]
Returned(v) == [kind |-> "return", value |-> v]
Raised(e) == [kind |-> "raise", error |-> e]

\* client/exceptions.py
ValidationError(field) == [type |-> "ValidationError", field |-> field]
ClubNotFoundError(identifier, search_type) ==
    [type |-> "ClubNotFoundError", identifier |-> identifier,
     search_type |-> search_type]
MultipleClubsFoundError(identifier, count) ==
    [type |-> "MultipleClubsFoundError", identifier |-> identifier,
     count |-> count]
APIError(status_code) == [type |-> "APIError", status_code |-> status_code]

\* errors that are not of client/exceptions.py
AssertionError == [type |-> "AssertionError"]
PydanticValidationError == [type |-> "pydantic.ValidationError"]
ZoneInfoError == [type |-> "ZoneInfoNotFoundError"]

-----------------------------------------------------------------------------
(* JSON objects are records; a key of the object is a field of the record *)

Has(obj, key) == key \in DOMAIN obj

\* what the transport can answer to a GET
RequestException(status_code) ==
    [kind |-> "RequestException", status_code |-> status_code]
InvalidJSON == [kind |-> "InvalidJSON"]
Json(data) == [kind |-> "json", data |-> data]

Request(endpoint, params) ==
    [endpoint |-> endpoint, params |-> params, response |-> Pending]

\* the request log with the response to the last request filled in
Answered(reqs, response) ==
    [reqs EXCEPT ![Len(reqs)] = [@ EXCEPT !.response = response]]

-----------------------------------------------------------------------------
(* PlaytomicClient.get_club *)

\* Court.normalize_type: str.lower
Lower(v) ==
    CASE v = "DOUBLE" -> "double"
      [] v = "Double" -> "double"
      [] v = "SINGLE" -> "single"
      [] OTHER -> v

\* Court(id=..., name=..., type=...) of one resource of the record
ParseCourt(resource) ==
    IF ~Has(resource, "resource_id") \/ ~Has(resource, "name")
       \/ ~Has(resource, "properties")
    THEN Raised(APIError(NoInt))
    ELSE IF ~Has(resource.properties, "resource_size")
    THEN Raised(APIError(NoInt))
    ELSE IF resource.resource_id = None \/ resource.name = None
            \/ Lower(resource.properties.resource_size) \notin CourtTypes
    THEN Raised(PydanticValidationError)
    ELSE Returned(Court(resource.resource_id, resource.name,
                        Lower(resource.properties.resource_size)))

\* the loop over the resources of the record; courts is club.courts so far
RECURSIVE ParseCourts(_, _)
ParseCourts(resources, courts) ==
    IF resources = <<>> THEN Returned(courts)
    ELSE LET court == ParseCourt(Head(resources)) IN
         IF court.kind = "raise" THEN court
         ELSE ParseCourts(Tail(resources), Append(courts, court.value))

ParseClub(slug, club_data) ==
    IF ~Has(club_data, "tenant_name") \/ ~Has(club_data, "tenant_id")
       \/ ~Has(club_data, "address")
    THEN Raised(APIError(NoInt))
    ELSE IF ~Has(club_data.address, "timezone")
    THEN Raised(APIError(NoInt))
    ELSE LET club_slug == IF Truthy(slug) THEN slug
                          ELSE IF Has(club_data, "tenant_uid")
                               THEN club_data.tenant_uid ELSE ""
         IN  IF None \in {club_slug, club_data.tenant_name,
                          club_data.tenant_id, club_data.address.timezone}
             THEN Raised(PydanticValidationError)
             ELSE LET courts == ParseCourts(
                                    IF Has(club_data, "resources")
                                    THEN club_data.resources ELSE <<>>, <<>>)
                  IN  IF courts.kind = "raise" THEN courts
                      ELSE Returned(Club(club_slug, club_data.tenant_name,
                                         club_data.tenant_id,
                                         club_data.address.timezone,
                                         courts.value))

\* the check of the arguments: the error raised, or Nothing
get_club_check_exactly_one(slug, name) ==
    IF Truthy(slug) = Truthy(name)
    THEN ValidationError(None) ELSE Nothing

get_club_check(slug, name) ==
    IF ~Truthy(slug) /\ ~Truthy(name)
    THEN ValidationError(None) ELSE Nothing

get_club_identifier(slug, name) == IF Truthy(slug) THEN slug ELSE name
get_club_search_type(slug, name) == IF Truthy(slug) THEN "slug" ELSE "name"

get_club_params(slug, name) ==
    IF Truthy(slug) THEN [tenant_uid |-> slug] ELSE [tenant_name |-> name]

\* get_club from the response to its request on
get_club_reply_lenient(slug, name, response) ==
    IF response.kind \in {"RequestException", "InvalidJSON"}
    THEN Returned(Club(get_club_identifier(slug, name), "", "", "UTC", <<>>))
    ELSE IF Len(response.data) = 0
    THEN Raised(ClubNotFoundError(get_club_identifier(slug, name),
                                  get_club_search_type(slug, name)))
    ELSE IF Len(response.data) > 1
    THEN Raised(MultipleClubsFoundError(get_club_identifier(slug, name),
                                        Len(response.data)))
    ELSE ParseClub(slug, response.data[1])

get_club_reply_first(slug, name, response) ==
    IF response.kind = "RequestException"
    THEN Raised(APIError(response.status_code))
    ELSE IF response.kind = "InvalidJSON"
    THEN Raised(APIError(NoInt))
    ELSE IF Len(response.data) = 0
    THEN Raised(ClubNotFoundError(get_club_identifier(slug, name),
                                  get_club_search_type(slug, name)))
    ELSE ParseClub(slug, response.data[1])

get_club_reply(slug, name, response) ==
    IF response.kind = "RequestException"
    THEN Raised(APIError(response.status_code))
    ELSE IF response.kind = "InvalidJSON"
    THEN Raised(APIError(NoInt))
    ELSE IF Len(response.data) = 0
    THEN Raised(ClubNotFoundError(get_club_identifier(slug, name),
                                  get_club_search_type(slug, name)))
    ELSE IF Len(response.data) > 1
    THEN Raised(MultipleClubsFoundError(get_club_identifier(slug, name),
                                        Len(response.data)))
    ELSE ParseClub(slug, response.data[1])

-----------------------------------------------------------------------------
(* Time zones: ZoneInfo(key) and datetime.astimezone *)

ValidZones == {"UTC", "Europe/Berlin", "America/New_York", "Asia/Kolkata"}

\* a day of July next to the winter days of the scenarios, and the days
\* before and after the days of the model
SummerDate == "2026-07-15"

PreviousDay(date) ==
    CASE date = "2026-02-15" -> "2026-02-14"
      [] date = "2026-02-16" -> "2026-02-15"
      [] date = "2026-07-15" -> "2026-07-14"

NextDay(date) ==
    CASE date = "2026-02-15" -> "2026-02-16"
      [] date = "2026-02-16" -> "2026-02-17"
      [] date = "2026-07-15" -> "2026-07-16"

\* the zone is on daylight saving time on the date (no day of the model is
\* the day of a transition)
DaylightSaving(zone, date) ==
    /\ zone \in {"Europe/Berlin", "America/New_York"}
    /\ date \in {PreviousDay(SummerDate), SummerDate, NextDay(SummerDate)}

\* minutes east of UTC in the zone on the date
UtcOffset(zone, date) ==
    CASE zone = "Europe/Berlin" ->
            IF DaylightSaving(zone, date) THEN 120 ELSE 60
      [] zone = "America/New_York" ->
            IF DaylightSaving(zone, date) THEN 0 - 240 ELSE 0 - 300
      [] zone = "Asia/Kolkata" -> 330
      [] OTHER -> 0

MinutesPerDay == 24 * 60

\* local clock time (minutes after midnight) on the date in the zone
\*   -> strftime("%H:%M") of the same instant in UTC
LocalToUtcClock(minute, zone, date) ==
    (minute - UtcOffset(zone, date)) % MinutesPerDay

\* local clock time on the date in the zone -> the same instant as a UTC
\* datetime: strptime(...).replace(tzinfo=ZoneInfo(zone)).astimezone(UTC)
LocalToUtc(minute, zone, date) ==
    LET m == minute - UtcOffset(zone, date)
        day == IF m < 0 THEN PreviousDay(date)
               ELSE IF m >= MinutesPerDay THEN NextDay(date)
               ELSE date
    IN  DateTime(day, (m % MinutesPerDay) \div 60, m % 60, 0)

\* UTC datetime -> strftime("%H:%M") of the same instant in the zone
UtcToLocalClockWestward(time, zone) ==
    (time.hh * 60 + time.mm - UtcOffset(zone, time.date)) % MinutesPerDay

UtcToLocalClock(time, zone) ==
    (time.hh * 60 + time.mm + UtcOffset(zone, time.date)) % MinutesPerDay

-----------------------------------------------------------------------------
(* PlaytomicClient.get_available_slots *)

\* the query parameters; start_time and end_time are Optional UTC clock times
get_available_slots_params(club, date, start_time, end_time) ==
    [tenant_id |-> club.club_id,
     date |-> date,
     sport_id |-> "PADEL",
     start_min |-> [date |-> date,
                    minute |-> IF start_time # NoInt
                               THEN CHOOSE m \in start_time : TRUE ELSE 0,
                    second |-> 0],
     start_max |-> [date |-> date,
                    minute |-> IF end_time # NoInt
                               THEN CHOOSE m \in end_time : TRUE
                               ELSE 23 * 60 + 59,
                    second |-> 59]]

\* datetime.strptime(..., "%H:%M:%S") accepts the clock time
ValidClock(t) == t.hh \in 0..23 /\ t.mm \in 0..59 /\ t.ss \in 0..59

\* one entry of a block: the Slot appended, or Nothing when the entry is skipped
\* (KeyError, ValueError; a pydantic ValidationError is a ValueError)
ParseSlot(club, date, resource_id, court_name, slot_data) ==
    IF ~Has(slot_data, "start_time") THEN Nothing
    ELSE IF ~ValidClock(slot_data.start_time) THEN Nothing
    ELSE IF ~Has(slot_data, "duration") \/ ~Has(slot_data, "price") THEN Nothing
    ELSE IF resource_id = None \/ slot_data.price = None THEN Nothing
    ELSE IF slot_data.duration = NoInt THEN Nothing
    ELSE Slot(club.club_id, resource_id, court_name,
              DateTime(date, slot_data.start_time.hh, slot_data.start_time.mm,
                       slot_data.start_time.ss),
              CHOOSE d \in slot_data.duration : TRUE, slot_data.price)

\* the loop over the entries of one block
RECURSIVE ParseBlockSlots(_, _, _, _, _, _)
ParseBlockSlotsAborting(club, date, resource_id, court_name, entries, available_slots) ==
    IF entries = <<>> THEN available_slots
    ELSE LET slot == ParseSlot(club, date, resource_id, court_name, Head(entries))
         IN  IF slot = Nothing THEN available_slots
             ELSE ParseBlockSlots(club, date, resource_id, court_name,
                                  Tail(entries), Append(available_slots, slot))

ParseBlockSlots(club, date, resource_id, court_name, entries, available_slots) ==
    IF entries = <<>> THEN available_slots
    ELSE LET slot == ParseSlot(club, date, resource_id, court_name, Head(entries))
         IN  ParseBlockSlots(club, date, resource_id, court_name, Tail(entries),
                             IF slot = Nothing THEN available_slots
                             ELSE Append(available_slots, slot))

ParseBlockKnownOnly(club, date, resource_availability, available_slots) ==
    LET resource_id == IF Has(resource_availability, "resource_id")
                       THEN resource_availability.resource_id ELSE None
        court == get_court_by_id(club.courts, resource_id)
    IN  IF court = Nothing THEN available_slots
        ELSE ParseBlockSlots(club, date, resource_id, court.name,
                             IF Has(resource_availability, "slots")
                             THEN resource_availability.slots ELSE <<>>,
                             available_slots)

ParseBlockReversed(club, date, resource_availability, available_slots) ==
    LET resource_id == IF Has(resource_availability, "resource_id")
                       THEN resource_availability.resource_id ELSE None
        court == get_court_by_id(club.courts, resource_id)
        court_name == IF court = Nothing THEN "Unknown Court" ELSE court.name
    IN  ParseBlockSlots(club, date, resource_id, court_name,
                        IF Has(resource_availability, "slots")
                        THEN resource_availability.slots ELSE <<>>,
                        <<>>) \o available_slots

ParseBlock(club, date, resource_availability, available_slots) ==
    LET resource_id == IF Has(resource_availability, "resource_id")
                       THEN resource_availability.resource_id ELSE None
        court == get_court_by_id(club.courts, resource_id)
        court_name == IF court = Nothing THEN "Unknown Court" ELSE court.name
    IN  ParseBlockSlots(club, date, resource_id, court_name,
                        IF Has(resource_availability, "slots")
                        THEN resource_availability.slots ELSE <<>>,
                        available_slots)

\* the loop over the blocks of the response
RECURSIVE ParseBlocks(_, _, _, _)
ParseBlocks(club, date, data, available_slots) ==
    IF data = <<>> THEN available_slots
    ELSE ParseBlocks(club, date, Tail(data),
                     ParseBlock(club, date, Head(data), available_slots))

\* get_available_slots from the response to its request on
get_available_slots_reply_unwrapped(club, date, response) ==
    IF response.kind = "RequestException"
    THEN Raised([type |-> "RequestException",
                 status_code |-> response.status_code])
    ELSE IF response.kind = "InvalidJSON"
    THEN Raised(APIError(NoInt))
    ELSE Returned(ParseBlocks(club, date, response.data, <<>>))

get_available_slots_reply(club, date, response) ==
    IF response.kind = "RequestException"
    THEN Raised(APIError(response.status_code))
    ELSE IF response.kind = "InvalidJSON"
    THEN Raised(APIError(NoInt))
    ELSE Returned(ParseBlocks(club, date, response.data, <<>>))

-----------------------------------------------------------------------------
(* client/utils.py create_booking_link, Slot.get_link *)

Pad2(n) == IF n < 10 THEN "0" \o ToString(n) ELSE ToString(n)

\* time.strftime("%Y-%m-%dT%H:%M:%S.000Z"), as the sequence of its parts
FormatIsoMillis(time) ==
    <<time.date, "T", Pad2(time.hh), ":", Pad2(time.mm), ":", Pad2(time.ss),
      ".000Z">>

\* str.replace(":", "%3A")
ReplaceFirstColon(parts) ==
    [i \in DOMAIN parts |->
        IF parts[i] = ":" /\ \A j \in 1..(i - 1) : parts[j] # ":"
        THEN "%3A" ELSE parts[i]]

ReplaceColons(parts) ==
    [i \in DOMAIN parts |-> IF parts[i] = ":" THEN "%3A" ELSE parts[i]]

\* the URL, as the values put into its query string
create_booking_link(club_id, court_id, time, duration) ==
    [type |-> "CUSTOMER_MATCH", tenant_id |-> club_id, resource_id |-> court_id,
     start |-> ReplaceColons(time), duration |-> duration]

get_link(slot) ==
    create_booking_link(slot.club_id, slot.court_id, FormatIsoMillis(slot.time),
                        slot.duration)

-----------------------------------------------------------------------------
(* _print_results *)

\* the loop that fills slots_by_court: the dict as the sequence of its items,
\* in insertion order
RECURSIVE slots_by_court(_, _)
slots_by_court_newest_first(slots, items) ==
    IF slots = <<>> THEN items
    ELSE LET slot == Head(slots)
             known == {k \in DOMAIN items : items[k].court_name = slot.court_name}
         IN  slots_by_court(
                 Tail(slots),
                 IF known = {}
                 THEN <<[court_name |-> slot.court_name, court_slots |-> <<slot>>]>>
                      \o items
                 ELSE [k \in DOMAIN items |->
                          IF k \in known
                          THEN [items[k] EXCEPT !.court_slots = Append(@, slot)]
                          ELSE items[k]])

slots_by_court(slots, items) ==
    IF slots = <<>> THEN items
    ELSE LET slot == Head(slots)
             known == {k \in DOMAIN items : items[k].court_name = slot.court_name}
         IN  slots_by_court(
                 Tail(slots),
                 IF known = {}
                 THEN Append(items, [court_name |-> slot.court_name,
                                     court_slots |-> <<slot>>])
                 ELSE [k \in DOMAIN items |->
                          IF k \in known
                          THEN [items[k] EXCEPT !.court_slots = Append(@, slot)]
                          ELSE items[k]])

\* the line printed for a slot
print_slot(slot, timezone) ==
    [local_time |-> UtcToLocalClock(slot.time, timezone),
     duration |-> slot.duration,
     price |-> slot.price,
     link |-> get_link(slot)]

\* what _print_results prints: "Court: ..." and the lines of its slots, court
\* by court; ZoneInfo(timezone) raises at the first line when it does not
\* know the zone
_print_results(slots, timezone) ==
    LET items == slots_by_court(slots, <<>>) IN
    IF timezone \notin ValidZones
    THEN IF items = <<>> THEN <<>>
         ELSE <<[court_name |-> items[1].court_name, lines |-> <<>>]>>
    ELSE [k \in DOMAIN items |->
             [court_name |-> items[k].court_name,
              lines |-> [i \in DOMAIN items[k].court_slots |->
                            print_slot(items[k].court_slots[i], timezone)]]]

-----------------------------------------------------------------------------
(* PlaytomicClient.find_slots *)

\* find_slots up to the call of get_club: the error raised, or Nothing
find_slots_check_start_only(start_time, end_time, timezone) ==
    IF start_time # NoInt /\ ~Truthy(timezone)
    THEN ValidationError("timezone")
    ELSE IF end_time # NoInt /\ timezone = None
    THEN AssertionError
    ELSE IF (start_time # NoInt \/ end_time # NoInt) /\ timezone \notin ValidZones
    THEN ZoneInfoError
    ELSE Nothing

find_slots_check(start_time, end_time, timezone) ==
    IF (start_time # NoInt \/ end_time # NoInt) /\ ~Truthy(timezone)
    THEN ValidationError("timezone")
    ELSE IF (start_time # NoInt \/ end_time # NoInt) /\ timezone \notin ValidZones
    THEN ZoneInfoError
    ELSE Nothing

\* utc_start, utc_end
find_slots_utc(clock, timezone, date) ==
    IF clock = NoInt THEN NoInt
    ELSE {LocalToUtcClock(m, timezone, date) : m \in clock}

\* find_slots from the return of get_available_slots on
find_slots_finish_raising(a, club, available_slots) ==
    LET filtered_slots == filter_slots(club, available_slots, a.court_type,
                                       a.duration)
    IN  IF filtered_slots = <<>> THEN Raised([type |-> "SlotNotFoundError"])
        ELSE Returned(filtered_slots)

find_slots_finish(a, club, available_slots) ==
    LET filtered_slots == filter_slots(club, available_slots, a.court_type,
                                       a.duration)
    IN  IF filtered_slots # <<>> /\ a.log_slots
        THEN IF a.timezone = None THEN Raised(AssertionError)
             ELSE IF a.timezone \notin ValidZones THEN Raised(ZoneInfoError)
             ELSE Returned(filtered_slots)
        ELSE Returned(filtered_slots)

\* what find_slots prints after get_available_slots returned
find_slots_output(a, club, available_slots) ==
    LET filtered_slots == filter_slots(club, available_slots, a.court_type,
                                       a.duration)
    IN  IF filtered_slots # <<>> /\ a.log_slots /\ a.timezone # None
        THEN _print_results(filtered_slots, a.timezone)
        ELSE <<>>

-----------------------------------------------------------------------------
(* tools.find_slots *)

default_timezone == "Europe/Berlin"

effective_tz(timezone) == IF Truthy(timezone) THEN timezone ELSE default_timezone

\* the arguments of the client.find_slots call that the tool makes
tool_client_args(a) ==
    [club_slug |-> a.club_slug, date |-> a.date, court_type |-> a.court_type,
     start_time |-> a.start_time, end_time |-> a.end_time,
     timezone |-> effective_tz(a.timezone), duration |-> a.duration,
     log_slots |-> TRUE]

tool_slot_summary(s, tz) ==
    [local_time |-> UtcToLocalClock(s.time, tz),
     court |-> s.court_name,
     duration |-> s.duration,
     price |-> s.price,
     booking_link |-> create_booking_link(s.club_id, s.court_id,
                                          FormatIsoMillis(s.time), s.duration)]

tool_find_slots_return_no_date(a, outcome) ==
    IF outcome.kind = "raise" THEN Nothing
    ELSE [count |-> Len(outcome.value),
          slots |-> [i \in DOMAIN outcome.value |->
                        tool_slot_summary(outcome.value[i],
                                          effective_tz(a.timezone))]]

\* the value the tool returns, from the outcome of client.find_slots
tool_find_slots_return(a, outcome) ==
    IF outcome.kind = "raise" THEN Nothing
    ELSE LET slots == outcome.value IN
         IF slots = <<>> THEN [count |-> 0, slots |-> <<>>]
         ELSE IF effective_tz(a.timezone) \notin ValidZones THEN Nothing
         ELSE [count |-> Len(slots),
               date |-> a.date,
               slots |-> [i \in DOMAIN slots |->
                             tool_slot_summary(slots[i], effective_tz(a.timezone))]]

-----------------------------------------------------------------------------
(* PlaytomicClient as a context manager *)

\* PlaytomicClient(): requests.Session()
new_session == "open"

\* PlaytomicClient.close: self.session.close()
close(s) == "closed"

client_exit_leaves_open(s) == [session |-> s, suppress |-> FALSE]

client_exit_suppressing(s) == [session |-> close(s), suppress |-> TRUE]

\* PlaytomicClient.__exit__: closes the session and returns None, which lets
\* the error that ended the block propagate
client_exit(s) == [session |-> close(s), suppress |-> FALSE]

\* the outcome of `with PlaytomicClient() as client:` from the outcome of its
\* body; where __exit__ suppresses the error, control falls out of the block
\* and the function, which has no statement after it, returns None
leave_with(outcome, s) ==
    IF outcome.kind = "raise" /\ client_exit(s).suppress
    THEN Returned(NoInt)
    ELSE outcome

-----------------------------------------------------------------------------
(* context.py: the context variables of a request *)

\* a ContextVar is the empty set until it is set, then the set of its value
Unset == {}

\* the defaults of _country_var, _language_var and _timezone_var
ContextVarDefaults == [country |-> None, language |-> "en", timezone |-> "UTC"]

set_request_region(country, language, timezone) ==
    [country |-> {country},
     language |-> {IF Truthy(language) THEN language ELSE "en"},
     timezone |-> {IF Truthy(timezone) THEN timezone ELSE default_timezone}]

get_country(ctx) ==
    IF ctx.country = Unset THEN ContextVarDefaults.country
    ELSE CHOOSE v \in ctx.country : TRUE

get_language(ctx) ==
    IF ctx.language = Unset THEN ContextVarDefaults.language
    ELSE CHOOSE v \in ctx.language : TRUE

get_timezone(ctx) ==
    IF ctx.timezone = Unset THEN ContextVarDefaults.timezone
    ELSE CHOOSE v \in ctx.timezone : TRUE

-----------------------------------------------------------------------------
(* Club search: PlaytomicClient.search_clubs and PlaytomicClient.geocode are *)
(* called by tools.py and cli.py and defined nowhere in the sources; they   *)
(* are opaque collaborators here: search_clubs returns a list of clubs,     *)
(* geocode returns coordinates (lat, lon) or None, and either may fail with *)
(* an APIError.  A call of one of them is an entry of the request log.      *)

\* client.search_clubs(query) and client.search_clubs(query, lat, lon, radius)
search_clubs(query, lat, lon, radius) ==
    Request("search_clubs",
            [query |-> query, lat |-> lat, lon |-> lon, radius |-> radius])

\* client.geocode(query, country_code)
geocode(query, country_code) ==
    Request("geocode", [query |-> query, country_code |-> country_code])

Coordinates(lat, lon) == <<lat, lon>>

-----------------------------------------------------------------------------
(* tools.find_clubs_by_name and tools.find_clubs_by_location *)

MaxResults == 5     \* clubs[:5]

\* clubs[:n]
Truncated(clubs, n) == SubSeq(clubs, 1, IF Len(clubs) < n THEN Len(clubs) ELSE n)

club_summary(club) ==
    [name |-> club.name, slug |-> club.slug, id |-> club.club_id,
     timezone |-> club.timezone]

\* the list the two tools return
club_summaries(clubs) ==
    [i \in DOMAIN Truncated(clubs, MaxResults) |-> club_summary(clubs[i])]

\* name.split() is the name as its sequence of words; " ".join(words[:length])
name_prefix(words, length) == SubSeq(words, 1, length)

\* find_clubs_by_name once the n-th query returned no club: the length of
\* the next shorter query, range(len(words) - 1, 1, -1)[n - 1], or 0 when
\* the loop is over
next_length_repeating(words, n) ==
    IF Len(words) - 1 >= 2 /\ n < Len(words) THEN Len(words) - 1 ELSE 0

next_length(words, n) ==
    IF Len(words) - n >= 2 THEN Len(words) - n ELSE 0

\* the value a tool returns when its try block ended with the outcome
tool_return(outcome) ==
    IF outcome.kind = "raise" THEN Returned(Nothing) ELSE outcome

-----------------------------------------------------------------------------
(* client/cli.py *)

\* what _print_clubs prints
_print_clubs(clubs) ==
    IF clubs = <<>> THEN <<[text |-> "No clubs found."]>>
    ELSE <<[found |-> Len(clubs)]>>
         \o [i \in DOMAIN clubs |->
                [name |-> clubs[i].name, club_id |-> clubs[i].club_id,
                 slug |-> clubs[i].slug, timezone |-> clubs[i].timezone]]

\* the arguments of the client.find_slots call of the slots subcommand
cli_client_args(a) ==
    [club_slug |-> a.club_slug, date |-> a.date, court_type |-> a.court_type,
     start_time |-> a.start_time, end_time |-> a.end_time,
     timezone |-> a.timezone, duration |-> a.duration, log_slots |-> TRUE]

\* the end of the process
Exit(code) == [kind |-> "exit", code |-> code]

\* main() from the outcome of its with block: the body returns None (NoInt)
\* or 1, a caught error is re-raised with --verbose and becomes 1 without
cli_main(verbose, outcome) ==
    IF outcome.kind = "raise"
    THEN IF verbose THEN outcome ELSE Returned(SomeInt(1))
    ELSE outcome

\* exit(main() or 0)
cli_exit(outcome) ==
    IF outcome.kind = "raise" THEN outcome
    ELSE IF outcome.value = NoInt \/ outcome.value = SomeInt(0) THEN Exit(0)
    ELSE Exit(CHOOSE code \in outcome.value : TRUE)

-----------------------------------------------------------------------------
(* api.py: the chat endpoint *)

HTTPException(status_code) == [type |-> "HTTPException", status_code |-> status_code]

chat_message(m) == [role |-> m.role, content |-> m.content]

\* the input the handler prepares for the agent
chat_messages(req) ==
    IF req.messages # <<>>
    THEN Returned([i \in DOMAIN req.messages |-> chat_message(req.messages[i])])
    ELSE IF Truthy(req.prompt)
    THEN Returned(<<[role |-> "user", content |-> req.prompt]>>)
    ELSE Raised(HTTPException(400))

\* the server-sent events of the response, from what the agent streamed
stream_agent_events(reply) ==
    IF reply.kind = "raise"
    THEN <<[type |-> "error"]>>
    ELSE reply.value

-----------------------------------------------------------------------------
(* The remote API: the responses the model draws from *)

TransportFailures ==
    {RequestException(NoInt), RequestException(SomeInt(503)), InvalidJSON}

Resource(id, name, size) ==
    [resource_id |-> id, name |-> name, properties |-> [resource_size |-> size]]

ClubRecord(resources) ==
    [tenant_uid |-> "lemon-padel-club", tenant_name |-> "Lemon Padel Club",
     tenant_id |-> TheClubId, address |-> [timezone |-> "Europe/Berlin"],
     resources |-> resources]

\* the venue of the scenarios: court-1 is a double, court-2 a single
StandardRecord ==
    ClubRecord(<<Resource("court-1", "Court 1", "DOUBLE"),
                 Resource("court-2", "Court 2", "single")>>)

OtherRecord ==
    [tenant_uid |-> "lemon-padel-two", tenant_name |-> "Lemon Padel Two",
     tenant_id |-> "tenant-2", address |-> [timezone |-> "Europe/Berlin"],
     resources |-> <<>>]

Resources ==
    {Resource(id, CourtName(id), size) :
        id \in KnownCourtIds, size \in {"single", "DOUBLE"}}

WellFormedRecords ==
    {ClubRecord(rs) : rs \in SeqsUpTo(Resources, MaxCourts)}
    \cup {OtherRecord,
          \* no resources key, no tenant_uid key
          [tenant_name |-> "Lemon Padel Club", tenant_id |-> TheClubId,
           address |-> [timezone |-> "Europe/Berlin"]]}

MalformedRecords ==
    {[tenant_uid |-> "lemon-padel-club", tenant_id |-> TheClubId,
      address |-> [timezone |-> "Europe/Berlin"], resources |-> <<>>],
     [tenant_uid |-> "lemon-padel-club", tenant_name |-> "Lemon Padel Club",
      address |-> [timezone |-> "Europe/Berlin"], resources |-> <<>>],
     [tenant_uid |-> "lemon-padel-club", tenant_name |-> "Lemon Padel Club",
      tenant_id |-> TheClubId, resources |-> <<>>],
     [tenant_uid |-> "lemon-padel-club", tenant_name |-> "Lemon Padel Club",
      tenant_id |-> TheClubId, address |-> [city |-> "Limburg"],
      resources |-> <<>>],
     [tenant_uid |-> "lemon-padel-club", tenant_name |-> None,
      tenant_id |-> TheClubId, address |-> [timezone |-> "Europe/Berlin"],
      resources |-> <<>>],
     ClubRecord(<<[name |-> "Court 1",
                   properties |-> [resource_size |-> "double"]]>>),
     ClubRecord(<<[resource_id |-> "court-1",
                   properties |-> [resource_size |-> "double"]]>>),
     ClubRecord(<<[resource_id |-> "court-1", name |-> "Court 1"]>>),
     ClubRecord(<<[resource_id |-> "court-1", name |-> "Court 1",
                   properties |-> [resource_type |-> "indoor"]]>>),
     ClubRecord(<<Resource("court-1", "Court 1", "double"),
                  Resource("court-2", "Court 2", "triple")>>)}

MaxRecords == 2     \* records in a directory response

\* responses of several records: get_club looks at their number only
SeveralRecords ==
    UNION {[1..k -> {StandardRecord, OtherRecord}] : k \in 2..MaxRecords}

\* what GET /tenants can answer to a get_club call
GetClubResponses ==
    TransportFailures
    \cup {Json(<<>>)}
    \cup {Json(<<r>>) : r \in WellFormedRecords \cup MalformedRecords}
    \cup {Json(data) : data \in SeveralRecords}

\* what GET /tenants can answer to a find_slots call
FindSlotsTenantsResponses ==
    TransportFailures
    \cup {Json(<<>>), Json(<<StandardRecord>>), Json(<<OtherRecord>>),
          Json(<<StandardRecord, StandardRecord>>),
          Json(<<ClubRecord(<<Resource("court-1", "Court 1", "triple")>>)>>)}

Clock(hh, mm, ss) == [hh |-> hh, mm |-> mm, ss |-> ss]

\* one entry of a block; the duration is a number or null
SlotEntry(start_time, duration, price) ==
    [start_time |-> start_time, duration |-> SomeInt(duration), price |-> price]

Block(resource_id, slots) == [resource_id |-> resource_id, slots |-> slots]

\* the blocks of the scenarios, a block of a court the venue does not list
\* and a block without slots
FindSlotsBlocks ==
    {Block("court-1", <<SlotEntry(Clock(10, 0, 0), 90, "25.00 EUR"),
                        SlotEntry(Clock(14, 0, 0), 90, "25.00 EUR")>>),
     Block("court-2", <<SlotEntry(Clock(10, 0, 0), 60, "18.00 EUR")>>),
     Block("court-9", <<SlotEntry(Clock(23, 30, 0), 60, "18.00 EUR")>>),
     Block("court-2", <<>>)}

MaxBlocks == 2      \* blocks in an availability response

\* "Limit to 10 slots" (tools.find_slots)
MaxPayloadSlots == 10

\* a busy day: one more slot on court-1 than the payload limit
CrowdedBlock ==
    Block("court-1", [i \in 1..(MaxPayloadSlots + 1) |->
                         SlotEntry(Clock(7 + i, 0, 0), 90, "25.00 EUR")])

\* what GET /availability can answer to a find_slots call
FindSlotsAvailabilityResponses ==
    TransportFailures
    \cup {Json(data) : data \in SeqsUpTo(FindSlotsBlocks, MaxBlocks)}
    \cup {Json(<<CrowdedBlock>>)}

\* entries that get_available_slots skips: no start_time, "25:00:00", no
\* duration, a null duration, no price
NoStartTime == [duration |-> SomeInt(90), price |-> "25.00 EUR"]
BadStartTime == SlotEntry(Clock(25, 0, 0), 90, "25.00 EUR")
NoDuration == [start_time |-> Clock(11, 0, 0), price |-> "25.00 EUR"]
NullDuration ==
    [start_time |-> Clock(12, 0, 0), duration |-> NoInt, price |-> "18.00 EUR"]
NoPrice == [start_time |-> Clock(13, 0, 0), duration |-> SomeInt(90)]

\* blocks with a bad entry before, between and after good ones, a block
\* without resource_id and a block without slots
FaultyBlocks ==
    {Block("court-1", <<SlotEntry(Clock(9, 0, 0), 90, "25.00 EUR"),
                        NoStartTime,
                        SlotEntry(Clock(15, 30, 0), 90, "25.00 EUR")>>),
     Block("court-1", <<BadStartTime>>),
     Block("court-2", <<NoDuration,
                        SlotEntry(Clock(16, 0, 0), 60, "18.00 EUR")>>),
     Block("court-2", <<SlotEntry(Clock(18, 0, 0), 60, "18.00 EUR"),
                        NullDuration>>),
     Block("court-9", <<NoPrice,
                        SlotEntry(Clock(8, 0, 0), 90, "25.00 EUR")>>),
     [slots |-> <<SlotEntry(Clock(19, 0, 0), 60, "18.00 EUR")>>],
     [resource_id |-> "court-1"]}

\* what GET /availability can answer to a get_available_slots call
GetAvailableSlotsResponses ==
    TransportFailures
    \cup {Json(data) :
            data \in SeqsUpTo(FindSlotsBlocks \cup FaultyBlocks, MaxBlocks)}

\* what a call of search_clubs ends with: an error, no club, one club, one
\* club more than the tools return
SearchHits ==
    <<Club("lemon-padel-club", "Lemon Padel Club", "tenant-1", "Europe/Berlin", <<>>),
      Club("lemon-padel-two", "Lemon Padel Two", "tenant-2", "Europe/Berlin", <<>>),
      Club("padel-nord", "Padel Nord", "tenant-3", "Europe/Berlin", <<>>),
      Club("padel-halle", "Padel Halle", "tenant-4", "Europe/Berlin", <<>>),
      Club("city-padel", "City Padel", "tenant-5", "Asia/Kolkata", <<>>),
      Club("padel-east", "Padel East", "tenant-6", "America/New_York", <<>>)>>

SearchClubsResults ==
    {Raised(APIError(SomeInt(503))), Returned(<<>>),
     Returned(SubSeq(SearchHits, 1, 1)), Returned(SearchHits)}

\* what a call of geocode ends with: an error, None, coordinates
GeocodeResults ==
    {Raised(APIError(NoInt)), Returned(Nothing), Returned(Coordinates(50, 8))}

\* what the agent streams: an error, nothing, a final message
AgentReplies ==
    {Raised([type |-> "GraphRecursionError"]), Returned(<<>>),
     Returned(<<[type |-> "message", text |-> "Court 1 is free at 10:00"]>>)}

-----------------------------------------------------------------------------
(* The calls the model makes *)

Slugs == {None, "", "lemon-padel-club"}
Names == {None, "", "Lemon Padel Club"}

GetClubArgs == [slug : Slugs, name : Names]

FilterSlotsArgs ==
    [club : FilterClubs, available_slots : FilterSlotLists,
     court_type : CourtTypeArgs, duration : DurationArgs]

\* local clock times 08:00 and 20:00
StartTimes == {NoInt, SomeInt(8 * 60)}
EndTimes == {NoInt, SomeInt(20 * 60)}

FindSlotsArgs ==
    [club_slug : {"", "lemon-padel-club"}, date : Dates,
     court_type : CourtTypeArgs, start_time : StartTimes, end_time : EndTimes,
     timezone : {None, "", "Europe/Berlin"}, duration : DurationArgs,
     log_slots : BOOLEAN]

\* the venue of the scenarios as get_club returns it, and a venue that lists
\* no court
AvailabilityClubs ==
    {Club("lemon-padel-club", "Lemon Padel Club", TheClubId, "Europe/Berlin",
          <<Court("court-1", "Court 1", "double"),
            Court("court-2", "Court 2", "single")>>),
     Club("lemon-padel-two", "Lemon Padel Two", "tenant-2", "Europe/Berlin",
          <<>>)}

\* UTC clock times 07:00 and 19:00
GetAvailableSlotsArgs ==
    [club : AvailabilityClubs, date : Dates, start_time : {NoInt, SomeInt(7 * 60)},
     end_time : {NoInt, SomeInt(19 * 60)}]

\* slots at 08:00:00, 08:30:05, 14:00:00, ... UTC on the courts of the scenarios
LinkSlots ==
    {Slot(TheClubId, id, CourtName(id), DateTime(date, hh, mm, ss), d, PriceOf(d)) :
        id \in CourtIds, date \in Dates, hh \in {8, 14}, mm \in {0, 30},
        ss \in {0, 5}, d \in Durations}

GetLinkArgs == [slot : LinkSlots]

\* time arguments: the documented format, a bare clock time, a word
LinkTimes ==
    {FormatIsoMillis(DateTime(date, hh, 0, 0)) : date \in Dates, hh \in {8, 14}}
    \cup {<<"08", ":", "00">>, <<"noon">>}

CreateBookingLinkArgs ==
    [club_id : {TheClubId, "tenant-2"}, court_id : CourtIds, time : LinkTimes,
     duration : Durations]

\* local clock times 00:00, 00:30, ..., 23:30 in the zones of the model, on a
\* winter day and on a summer day
ConvertTimeArgs ==
    [timezone : ValidZones, date : Dates \cup {SummerDate},
     minute : {30 * k : k \in 0..47}]

\* slots of two listed courts and of two courts the venue does not list
PrintSlotValues ==
    {Slot(TheClubId, "court-1", "Court 1", DateTime(TheDate, 10, 0, 0), 90,
          "25.00 EUR"),
     Slot(TheClubId, "court-1", "Court 1", DateTime(TheDate, 14, 0, 0), 90,
          "25.00 EUR"),
     Slot(TheClubId, "court-2", "Court 2", DateTime(TheDate, 10, 0, 0), 60,
          "18.00 EUR"),
     Slot(TheClubId, "court-8", "Unknown Court", DateTime(TheDate, 10, 0, 0), 60,
          "18.00 EUR"),
     Slot(TheClubId, "court-9", "Unknown Court", DateTime(TheDate, 23, 30, 0), 60,
          "18.00 EUR")}

MaxPrinted == 3     \* slots in a list to print

PrintResultsArgs ==
    [slots : SeqsUpTo(PrintSlotValues, MaxPrinted),
     timezone : {"Europe/Berlin", "Mars/Olympus"}]

ToolFindSlotsArgs ==
    [club_slug : {"", "lemon-padel-club"}, date : Dates,
     court_type : CourtTypeArgs, start_time : StartTimes, end_time : EndTimes,
     timezone : {None, "America/New_York"}, duration : DurationArgs]

\* club names, each as its sequence of words: the empty name, "Lemon",
\* "Lemon Padel", ...
NameWords == <<"Lemon", "Padel", "Club", "Limburg", "Nord", "Halle">>

MaxWords == 4       \* words in a club name

ClubNames == {SubSeq(NameWords, 1, n) : n \in 0..MaxWords}

FindClubsByNameArgs == [name : ClubNames]

FindClubsByLocationArgs == [query : {"", "Limburg"}]

\* the slots subcommand, and the search subcommand with exactly one of
\* --location and --name; a name is its sequence of words, <<>> when it is
\* absent or empty
CliArgs ==
    [command : {"slots"}, verbose : BOOLEAN,
     club_slug : {"", "lemon-padel-club"}, date : {TheDate},
     court_type : {None}, start_time : StartTimes, end_time : {NoInt},
     timezone : {"Europe/Berlin"}, duration : {NoInt}]
    \cup [command : {"search"}, verbose : BOOLEAN, location : {"", "Limburg"},
          name : {<<>>}, radius : {50000}]
    \cup [command : {"search"}, verbose : BOOLEAN, location : {None},
          name : {<<>>, SubSeq(NameWords, 1, 2)}, radius : {50000}]

MaxHistory == 25    \* messages in the history of a chat request

\* the history "msg 1", ..., "msg n"
History(n) == [i \in 1..n |-> [role |-> "user", content |-> i]]

ChatArgs ==
    [messages : {History(n) : n \in 0..MaxHistory}, prompt : {None, "", "hi"},
     country : {None}, language : {None}, timezone : {None, "Asia/Kolkata"}]

\* the arguments of the set_request_region calls
RegionArgs ==
    [country : {"DE"}, language : {None}, timezone : {None, "Asia/Kolkata"}]

\* the operations that are methods of a client, which holds its session
ClientMethods == {"get_club", "get_available_slots", "filter_slots", "find_slots"}

Init ==
    /\ \/ op = "get_club" /\ args \in GetClubArgs
       \/ op = "get_available_slots" /\ args \in GetAvailableSlotsArgs
       \/ op = "filter_slots" /\ args \in FilterSlotsArgs
       \/ op = "create_booking_link" /\ args \in CreateBookingLinkArgs
       \/ op = "get_link" /\ args \in GetLinkArgs
       \/ op = "convert_time" /\ args \in ConvertTimeArgs
       \/ op = "_print_results" /\ args \in PrintResultsArgs
       \/ op = "find_slots" /\ args \in FindSlotsArgs
       \/ op = "tool_find_slots" /\ args \in ToolFindSlotsArgs
       \/ op = "find_clubs_by_name" /\ args \in FindClubsByNameArgs
       \/ op = "find_clubs_by_location" /\ args \in FindClubsByLocationArgs
       \/ op = "cli" /\ args \in CliArgs
       \/ op = "chat" /\ args \in ChatArgs
       \/ op = "get_timezone" /\ args = Nothing
    /\ pc = "call"
    /\ local_club = Nothing
    /\ ret = Pending
    /\ requests = <<>>
    /\ stdout = <<>>
    /\ session = IF op \in ClientMethods THEN new_session ELSE "none"
    /\ context = [country |-> Unset, language |-> Unset, timezone |-> Unset]

\* the arguments of the PlaytomicClient.find_slots call in progress
ClientArgs ==
    IF op = "tool_find_slots" THEN tool_client_args(args)
    ELSE IF op = "cli" THEN cli_client_args(args)
    ELSE args

\* the call runs in `with PlaytomicClient() as client:`
UsesWith ==
    op \in {"tool_find_slots", "find_clubs_by_name", "find_clubs_by_location",
            "cli"}

\* the session once the call constructed its client, once it left its block
Entered(s) == IF UsesWith THEN new_session ELSE s
Left(s) == IF UsesWith THEN client_exit(s).session ELSE s

\* the outcome of the call, from the outcome of the body of its with block
Finished(outcome) ==
    IF op = "cli"
    THEN cli_exit(cli_main(args.verbose, leave_with(outcome, session)))
    ELSE tool_return(leave_with(outcome, session))

\* the outcome of the call, from the outcome of PlaytomicClient.find_slots
OutcomeOfClientErrorsOnly(outcome) ==
    IF op = "tool_find_slots"
    THEN IF outcome.kind = "raise"
            /\ outcome.error.type \notin {"APIError", "ClubNotFoundError",
                                          "MultipleClubsFoundError",
                                          "ValidationError"}
         THEN outcome
         ELSE Returned(tool_find_slots_return(args, outcome))
    ELSE IF op = "cli"
    THEN Finished(IF outcome.kind = "raise" THEN outcome ELSE Returned(NoInt))
    ELSE outcome

\* the outcome of the call, from the outcome of PlaytomicClient.find_slots
Outcome(outcome) ==
    IF op = "tool_find_slots"
    THEN Returned(tool_find_slots_return(args, outcome))
    ELSE IF op = "cli"
    THEN Finished(IF outcome.kind = "raise" THEN outcome ELSE Returned(NoInt))
    ELSE outcome

-----------------------------------------------------------------------------
(* Actions *)

\* filter_slots(club, available_slots, court_type, duration)
FilterSlots ==
    /\ op = "filter_slots"
    /\ pc = "call"
    /\ ret' = Returned(filter_slots(args.club, args.available_slots,
                                    args.court_type, args.duration))
    /\ pc' = "done"
    /\ UNCHANGED <<op, args, local_club, requests, stdout, session, context>>

\* create_booking_link(club_id, court_id, time, duration)
CreateBookingLink ==
    /\ op = "create_booking_link"
    /\ pc = "call"
    /\ ret' = Returned(create_booking_link(args.club_id, args.court_id,
                                           args.time, args.duration))
    /\ pc' = "done"
    /\ UNCHANGED <<op, args, local_club, requests, stdout, session, context>>

\* slot.get_link()
GetLink ==
    /\ op = "get_link"
    /\ pc = "call"
    /\ ret' = Returned(get_link(args.slot))
    /\ pc' = "done"
    /\ UNCHANGED <<op, args, local_club, requests, stdout, session, context>>

\* the conversion of a local clock time to UTC in find_slots, and of the
\* instant back to the zone in _print_results
ConvertTime ==
    /\ op = "convert_time"
    /\ pc = "call"
    /\ LET time == LocalToUtc(args.minute, args.timezone, args.date) IN
        ret' = Returned([utc |-> time,
                         utc_clock |-> LocalToUtcClock(args.minute,
                                                       args.timezone, args.date),
                         local_time |-> UtcToLocalClock(time, args.timezone)])
    /\ pc' = "done"
    /\ UNCHANGED <<op, args, local_club, requests, stdout, session, context>>

\* _print_results(slots, timezone)
PrintResults ==
    /\ op = "_print_results"
    /\ pc = "call"
    /\ stdout' = _print_results(args.slots, args.timezone)
    /\ ret' = IF args.slots # <<>> /\ args.timezone \notin ValidZones
              THEN Raised(ZoneInfoError)
              ELSE Returned(Nothing)
    /\ pc' = "done"
    /\ UNCHANGED <<op, args, local_club, requests, session, context>>

\* get_club(slug, name), up to its request
GetClubCall ==
    /\ op = "get_club"
    /\ pc = "call"
    /\ LET error == get_club_check(args.slug, args.name) IN
       IF error # Nothing
       THEN /\ ret' = Raised(error)
            /\ pc' = "done"
            /\ UNCHANGED requests
       ELSE /\ requests' = <<Request("/tenants",
                                     get_club_params(args.slug, args.name))>>
            /\ pc' = "await_tenants"
            /\ UNCHANGED ret
    /\ UNCHANGED <<op, args, local_club, stdout, session, context>>

\* get_available_slots(club, date, start_time, end_time), up to its request
GetAvailableSlotsCall ==
    /\ op = "get_available_slots"
    /\ pc = "call"
    /\ requests' = <<Request("/availability",
                             get_available_slots_params(args.club, args.date,
                                                        args.start_time,
                                                        args.end_time))>>
    /\ pc' = "await_availability"
    /\ UNCHANGED <<op, args, local_club, ret, stdout, session, context>>

\* PlaytomicClient.find_slots, called directly or by the tool, up to the
\* request of get_club
FindSlotsCall ==
    /\ \/ op \in {"find_slots", "tool_find_slots"}
       \/ op = "cli" /\ args.command = "slots"
    /\ pc = "call"
    /\ LET a == ClientArgs
           error == find_slots_check(a.start_time, a.end_time, a.timezone)
           club_error == get_club_check(a.club_slug, None)
       IN  IF error # Nothing
           THEN /\ ret' = Outcome(Raised(error))
                /\ pc' = "done"
                /\ session' = Left(Entered(session))
                /\ UNCHANGED requests
           ELSE IF club_error # Nothing
           THEN /\ ret' = Outcome(Raised(club_error))
                /\ pc' = "done"
                /\ session' = Left(Entered(session))
                /\ UNCHANGED requests
           ELSE /\ requests' = <<Request("/tenants",
                                         get_club_params(a.club_slug, None))>>
                /\ pc' = "await_tenants"
                /\ session' = Entered(session)
                /\ UNCHANGED ret
    /\ UNCHANGED <<op, args, local_club, stdout, context>>

\* the response to GET /tenants arrives: the rest of get_club and, in
\* find_slots, get_available_slots up to its request
TenantsReply(response) ==
    /\ pc = "await_tenants"
    /\ IF op = "get_club"
       THEN /\ ret' = get_club_reply(args.slug, args.name, response)
            /\ requests' = Answered(requests, response)
            /\ pc' = "done"
            /\ UNCHANGED <<local_club, session>>
       ELSE LET a == ClientArgs
                found == get_club_reply(a.club_slug, None, response)
            IN  IF found.kind = "raise"
                THEN /\ ret' = Outcome(found)
                     /\ requests' = Answered(requests, response)
                     /\ pc' = "done"
                     /\ session' = Left(session)
                     /\ UNCHANGED local_club
                ELSE /\ local_club' = found.value
                     /\ requests' =
                            Append(Answered(requests, response),
                                   Request("/availability",
                                       get_available_slots_params(
                                           found.value, a.date,
                                           find_slots_utc(a.start_time,
                                                          a.timezone, a.date),
                                           find_slots_utc(a.end_time,
                                                          a.timezone, a.date))))
                     /\ pc' = "await_availability"
                     /\ UNCHANGED <<ret, session>>
    /\ UNCHANGED <<op, args, stdout, context>>

\* the response to GET /availability arrives: the rest of
\* get_available_slots and of find_slots
AvailabilityReply(response) ==
    /\ pc = "await_availability"
    /\ IF op = "get_available_slots"
       THEN /\ ret' = get_available_slots_reply(args.club, args.date, response)
            /\ UNCHANGED stdout
       ELSE LET a == ClientArgs
                fetched == get_available_slots_reply(local_club, a.date, response)
            IN  IF fetched.kind = "raise"
                THEN /\ ret' = Outcome(fetched)
                     /\ UNCHANGED stdout
                ELSE /\ ret' = Outcome(find_slots_finish(a, local_club,
                                                         fetched.value))
                     /\ stdout' = find_slots_output(a, local_club,
                                                    fetched.value)
    /\ requests' = Answered(requests, response)
    /\ pc' = "done"
    /\ session' = Left(session)
    /\ UNCHANGED <<op, args, local_club, context>>

\* context.set_request_region(country, language, timezone), which the API
\* layer calls before the tools run
SetRequestRegion(region) ==
    /\ op \in {"get_timezone", "tool_find_slots", "find_clubs_by_location"}
    /\ pc = "call"
    /\ context' = set_request_region(region.country, region.language,
                                     region.timezone)
    /\ UNCHANGED <<op, args, pc, local_club, ret, requests, stdout, session>>

\* context.get_timezone()
GetTimezone ==
    /\ op = "get_timezone"
    /\ pc = "call"
    /\ ret' = Returned(get_timezone(context))
    /\ pc' = "done"
    /\ UNCHANGED <<op, args, local_club, requests, stdout, session, context>>

\* find_clubs_by_name(name), up to its first query
FindClubsByNameCall ==
    /\ op = "find_clubs_by_name"
    /\ pc = "call"
    /\ session' = new_session
    /\ requests' = <<search_clubs(args.name, NoInt, NoInt, NoInt)>>
    /\ pc' = "await_search"
    /\ UNCHANGED <<op, args, local_club, ret, stdout, context>>

\* find_clubs_by_location(query), up to the call of geocode
FindClubsByLocationCall ==
    /\ op = "find_clubs_by_location"
    /\ pc = "call"
    /\ session' = new_session
    /\ requests' = <<geocode(args.query, get_country(context))>>
    /\ pc' = "await_geocode"
    /\ UNCHANGED <<op, args, local_club, ret, stdout, context>>

\* main() with the search subcommand, up to its first call
CliSearchCall ==
    /\ op = "cli"
    /\ args.command = "search"
    /\ pc = "call"
    /\ IF Truthy(args.location)
       THEN /\ requests' = <<geocode(args.location, None)>>
            /\ pc' = "await_geocode"
            /\ session' = new_session
            /\ UNCHANGED ret
       ELSE IF args.name # <<>>
       THEN /\ requests' = <<search_clubs(args.name, NoInt, NoInt, NoInt)>>
            /\ pc' = "await_search"
            /\ session' = new_session
            /\ UNCHANGED ret
       ELSE /\ ret' = Finished(Returned(NoInt))
            /\ pc' = "done"
            /\ session' = Left(new_session)
            /\ UNCHANGED requests
    /\ UNCHANGED <<op, args, local_club, stdout, context>>

\* geocode returns or fails: the rest of find_clubs_by_location and of the
\* search by location of the CLI, up to the call of search_clubs
GeocodeReply(response) ==
    /\ pc = "await_geocode"
    /\ IF response.kind = "raise"
       THEN /\ ret' = Finished(response)
            /\ requests' = Answered(requests, response)
            /\ pc' = "done"
            /\ session' = Left(session)
       ELSE IF response.value = Nothing
       THEN /\ ret' = Finished(Returned(IF op = "cli" THEN SomeInt(1)
                                        ELSE Nothing))
            /\ requests' = Answered(requests, response)
            /\ pc' = "done"
            /\ session' = Left(session)
       ELSE /\ requests' =
                   Append(Answered(requests, response),
                          IF op = "cli"
                          THEN search_clubs(args.location,
                                            SomeInt(response.value[1]),
                                            SomeInt(response.value[2]),
                                            SomeInt(args.radius))
                          ELSE search_clubs(args.query,
                                            SomeInt(response.value[1]),
                                            SomeInt(response.value[2]), NoInt))
            /\ pc' = "await_search"
            /\ UNCHANGED <<ret, session>>
    /\ UNCHANGED <<op, args, local_club, stdout, context>>

\* search_clubs returns or fails: the rest of find_clubs_by_location and of
\* the search of the CLI, and find_clubs_by_name up to its next query
SearchReply(response) ==
    /\ pc = "await_search"
    /\ IF response.kind = "raise"
       THEN /\ ret' = Finished(response)
            /\ requests' = Answered(requests, response)
            /\ pc' = "done"
            /\ session' = Left(session)
            /\ UNCHANGED stdout
       ELSE IF op = "cli"
       THEN /\ stdout' = _print_clubs(response.value)
            /\ ret' = Finished(Returned(NoInt))
            /\ requests' = Answered(requests, response)
            /\ pc' = "done"
            /\ session' = Left(session)
       ELSE IF \/ op = "find_clubs_by_location"
               \/ response.value # <<>>
               \/ next_length(args.name, Len(requests)) = 0
       THEN /\ ret' = Finished(Returned(club_summaries(response.value)))
            /\ requests' = Answered(requests, response)
            /\ pc' = "done"
            /\ session' = Left(session)
            /\ UNCHANGED stdout
       ELSE /\ requests' =
                   Append(Answered(requests, response),
                          search_clubs(name_prefix(args.name,
                                           next_length(args.name, Len(requests))),
                                       NoInt, NoInt, NoInt))
            /\ UNCHANGED <<pc, ret, session, stdout>>
    /\ UNCHANGED <<op, args, local_club, context>>

\* chat(req), up to the start of the agent
Chat ==
    /\ op = "chat"
    /\ pc = "call"
    /\ LET messages == chat_messages(args) IN
       IF messages.kind = "raise"
       THEN /\ ret' = messages
            /\ pc' = "done"
            /\ UNCHANGED <<requests, context>>
       ELSE /\ context' = set_request_region(args.country, args.language,
                                             args.timezone)
            /\ requests' = <<Request("agent.stream",
                                     [messages |-> messages.value,
                                      recursion_limit |-> 30])>>
            /\ pc' = "await_agent"
            /\ UNCHANGED ret
    /\ UNCHANGED <<op, args, local_club, stdout, session>>

\* the agent has run: the events of the response
AgentReply(response) ==
    /\ pc = "await_agent"
    /\ ret' = Returned(stream_agent_events(response))
    /\ requests' = Answered(requests, response)
    /\ pc' = "done"
    /\ UNCHANGED <<op, args, local_club, stdout, session, context>>

Next ==
    \/ FilterSlots
    \/ CreateBookingLink
    \/ GetLink
    \/ ConvertTime
    \/ PrintResults
    \/ GetClubCall
    \/ GetAvailableSlotsCall
    \/ FindSlotsCall
    \/ \E region \in RegionArgs : SetRequestRegion(region)
    \/ GetTimezone
    \/ FindClubsByNameCall
    \/ FindClubsByLocationCall
    \/ CliSearchCall
    \/ \E response \in GeocodeResults : GeocodeReply(response)
    \/ \E response \in SearchClubsResults : SearchReply(response)
    \/ Chat
    \/ \E response \in AgentReplies : AgentReply(response)
    \/ \E response \in IF op = "get_club" THEN GetClubResponses
                       ELSE FindSlotsTenantsResponses :
            TenantsReply(response)
    \/ \E response \in IF op = "get_available_slots"
                       THEN GetAvailableSlotsResponses
                       ELSE FindSlotsAvailabilityResponses :
            AvailabilityReply(response)

Spec == Init /\ [][Next]_vars

-----------------------------------------------------------------------------
(* Properties *)

Done == pc = "done"

\* the ids of the courts of the club that a court_type argument selects
CourtIdsOfType(V, court_type) ==
    {V.courts[i].id : i \in {j \in DOMAIN V.courts :
        \/ court_type = None
        \/ court_type = "SINGLE" /\ V.courts[j].type = "single"
        \/ court_type = "DOUBLE" /\ V.courts[j].type = "double"}}

\* the slots of the list on the courts that the court_type argument selects
TypeFiltered(V, A, court_type) ==
    SelectSeq(A, LAMBDA slot : slot.court_id \in CourtIdsOfType(V, court_type))

\* the response to the n-th request of the call
ResponseTo(n) == requests[n].response

\* the call got a parsed body from GET /tenants, GET /availability
TenantsAnswered ==
    /\ Len(requests) >= 1
    /\ ResponseTo(1).kind = "json"

AvailabilityAnswered ==
    /\ Len(requests) = 2
    /\ ResponseTo(2).kind = "json"

\* C1: a find_slots call with start_time or end_time and without timezone
\* (None or empty) fails with ValidationError(field = "timezone"), and has sent no request.
C1_MissingTimezoneRejected ==
    (/\ op = "find_slots"
     /\ pc # "call"
     /\ args.start_time # NoInt \/ args.end_time # NoInt
     /\ ~Truthy(args.timezone))
    => /\ Done
       /\ ret = Raised(ValidationError("timezone"))
       /\ requests = <<>>

C1_Witness ==
    /\ op = "find_slots"
    /\ Done
    /\ args.start_time = NoInt
    /\ args.end_time # NoInt
    /\ args.timezone = None
    /\ ret.kind = "raise"

\* C2 as stated: get_club fails with ValidationError, without a request,
\* whenever not exactly one of slug and name is given (neither, or both).
C2_ExactlyOneSelectorAsStated ==
    (/\ op = "get_club"
     /\ pc # "call"
     /\ Truthy(args.slug) = Truthy(args.name))
    => /\ ret = Raised(ValidationError(None))
       /\ requests = <<>>

\* C2 amended: get_club fails with ValidationError, without a request, when
\* neither slug nor name is given; when both are given it does not fail with
\* ValidationError but sends the directory request with the slug as the
\* selector (tenant_uid) and ignores the name.
C2_SelectorCheck ==
    (op = "get_club" /\ pc # "call")
    => /\ (~Truthy(args.slug) /\ ~Truthy(args.name))
            => ret = Raised(ValidationError(None)) /\ requests = <<>>
       /\ (Truthy(args.slug) /\ Truthy(args.name))
            => /\ Len(requests) = 1
               /\ requests[1].endpoint = "/tenants"
               /\ requests[1].params = [tenant_uid |-> args.slug]
               /\ ret.kind = "raise" => ret.error.type # "ValidationError"

C2_Witness ==
    /\ op = "get_club"
    /\ Done
    /\ Truthy(args.slug)
    /\ Truthy(args.name)
    /\ ret.kind = "return"
    /\ ret.value.slug = args.slug

\* C3: after a parsed directory response, get_club returns a Club only when
\* the response holds exactly one record; with no record it fails with
\* ClubNotFoundError carrying the selector and its type; with n > 1 records
\* it fails with MultipleClubsFoundError carrying n.
C3_OneRecordOrError ==
    (op = "get_club" /\ Done /\ TenantsAnswered)
    => LET n == Len(ResponseTo(1).data)
           selector == IF Truthy(args.slug) THEN args.slug ELSE args.name
           selector_type == IF Truthy(args.slug) THEN "slug" ELSE "name"
       IN  /\ ret.kind = "return" => n = 1
           /\ n = 0 => ret = Raised(ClubNotFoundError(selector, selector_type))
           /\ n > 1 => ret = Raised(MultipleClubsFoundError(selector, n))

C3_Witness ==
    /\ op = "get_club"
    /\ Done
    /\ TenantsAnswered
    /\ Len(ResponseTo(1).data) = 2
    /\ ret.kind = "raise"
    /\ ret.error.type = "MultipleClubsFoundError"
    /\ ret.error.count = 2

\* C4: the slots of filter_slots(V, A, SINGLE), those of
\* filter_slots(V, A, DOUBLE) and the slots of A on no court of V are
\* together exactly the slots of A.
C4_TypeFilterComplete ==
    (op = "filter_slots" /\ Done)
    => LET V == args.club
           A == args.available_slots
       IN  Range(filter_slots(V, A, "SINGLE", NoInt))
           \cup Range(filter_slots(V, A, "DOUBLE", NoInt))
           \cup {slot \in Range(A) : slot.court_id \notin CourtIdsOfType(V, None)}
           = Range(A)

C4_Witness ==
    /\ op = "filter_slots"
    /\ Done
    /\ args.court_type = "SINGLE"
    /\ args.duration = NoInt
    /\ ret.value # <<>>
    /\ Len(args.available_slots) > Len(ret.value)
    /\ \E slot \in Range(args.available_slots) :
            slot.court_id \notin CourtIdsOfType(args.club, None)

\* C5: filter_slots with court_type SINGLE or DOUBLE returns only slots on a
\* court of that type of the club; without court_type only slots on a court
\* of the club; a slot on no court of the club is in no result.
C5_OnlyTargetCourts ==
    (op = "filter_slots" /\ Done)
    => \A slot \in Range(ret.value) :
         /\ \E i \in DOMAIN args.club.courts :
              /\ args.club.courts[i].id = slot.court_id
              /\ args.court_type = "SINGLE" => args.club.courts[i].type = "single"
              /\ args.court_type = "DOUBLE" => args.club.courts[i].type = "double"
         /\ slot.court_id \in {args.club.courts[i].id : i \in DOMAIN args.club.courts}

C5_Witness ==
    /\ op = "filter_slots"
    /\ Done
    /\ args.court_type = "DOUBLE"
    /\ ret.value # <<>>
    /\ \E slot \in Range(args.available_slots) :
            slot.court_id \notin CourtIdsOfType(args.club, None)
    /\ \E i \in DOMAIN args.club.courts : args.club.courts[i].type = "single"

\* C6: filter_slots with duration d returns exactly the slots of the
\* type-filtered list whose duration is d; without duration it returns the
\* type-filtered list; the results over the durations that occur in the input
\* together are the type-filtered list.
C6_DurationExact ==
    (op = "filter_slots" /\ Done)
    => LET V == args.club
           A == args.available_slots
           T == TypeFiltered(V, A, args.court_type)
       IN  /\ args.duration = NoInt => ret.value = T
           /\ args.duration # NoInt
                => ret.value = SelectSeq(T, LAMBDA slot : slot.duration \in args.duration)
           /\ UNION {Range(filter_slots(V, A, args.court_type, SomeInt(slot.duration))) :
                        slot \in Range(A)}
              = Range(T)

C6_Witness ==
    /\ op = "filter_slots"
    /\ Done
    /\ args.duration = SomeInt(60)
    /\ ret.value # <<>>
    /\ Len(ret.value) < Len(TypeFiltered(args.club, args.available_slots,
                                         args.court_type))

\* the (court, start time) pairs of an availability response, block by block
RECURSIVE ResponseOrder(_)
ResponseOrder(data) ==
    IF data = <<>> THEN <<>>
    ELSE [i \in DOMAIN Head(data).slots |->
             <<Head(data).resource_id, Head(data).slots[i].start_time>>]
         \o ResponseOrder(Tail(data))

SlotOrder(slots) ==
    [i \in DOMAIN slots |->
        <<slots[i].court_id,
          Clock(slots[i].time.hh, slots[i].time.mm, slots[i].time.ss)>>]

\* C7: the result of filter_slots is a subsequence of its input; the list
\* find_slots returns is in the order of the availability response, block by
\* block and within a block entry by entry.
C7_OrderPreserved ==
    /\ (op = "filter_slots" /\ Done)
        => IsSubseq(ret.value, args.available_slots)
    /\ (op = "find_slots" /\ Done /\ ret.kind = "return")
        => IsSubseq(SlotOrder(ret.value), ResponseOrder(ResponseTo(2).data))

C7_Witness ==
    /\ op = "find_slots"
    /\ Done
    /\ ret.kind = "return"
    /\ Len(ret.value) = 3
    /\ ret.value[1].court_id # ret.value[3].court_id
    /\ ret.value[1].time # ret.value[2].time

\* no entry of the availability response passes the filters of the call
NothingSurvives ==
    \A b \in DOMAIN ResponseTo(2).data :
        LET block == ResponseTo(2).data[b] IN
        \A e \in DOMAIN block.slots :
            \/ block.resource_id \notin CourtIdsOfType(local_club, args.court_type)
            \/ args.duration # NoInt /\ block.slots[e].duration # args.duration

\* C8: when the venue resolves and the availability response holds no slot,
\* or no slot passes the filters, PlaytomicClient.find_slots returns the empty
\* list and raises nothing, and the find_slots tool returns count 0 with an
\* empty slots list.
C8_EmptyIsSuccess ==
    (Done /\ AvailabilityAnswered /\ NothingSurvives)
    => /\ op = "find_slots" => ret = Returned(<<>>)
       /\ op = "tool_find_slots"
            => /\ ret.kind = "return"
               /\ ret.value # Nothing
               /\ ret.value.count = 0
               /\ ret.value.slots = <<>>

C8_Witness ==
    /\ op = "tool_find_slots"
    /\ Done
    /\ AvailabilityAnswered
    /\ ResponseTo(2).data # <<>>
    /\ \E b \in DOMAIN ResponseTo(2).data : ResponseTo(2).data[b].slots # <<>>
    /\ NothingSurvives
    /\ ret.value # Nothing
    /\ ret.value.count = 0

\* the tool returned a payload (the search completed without error)
ToolPayload ==
    /\ op = "tool_find_slots"
    /\ Done
    /\ ret.value # Nothing

\* C9 as stated: every payload of the find_slots tool has the keys count,
\* date and slots, count being the number of entries of slots and date the
\* requested date; also when nothing was found.
C9_ThreeKeysAsStated ==
    ToolPayload
    => /\ DOMAIN ret.value = {"count", "date", "slots"}
       /\ ret.value.count = Len(ret.value.slots)
       /\ ret.value.date = args.date

\* C9 amended: in every payload of the find_slots tool count is the number
\* of entries of slots; a payload with at least one slot has the keys count,
\* date and slots, date being the requested date; the nothing-found payload
\* has the keys count (0) and slots (empty) only, and no date.
C9_PayloadShape ==
    ToolPayload
    => /\ ret.value.count = Len(ret.value.slots)
       /\ ret.value.slots # <<>>
            => /\ DOMAIN ret.value = {"count", "date", "slots"}
               /\ ret.value.date = args.date
       /\ ret.value.slots = <<>>
            => /\ DOMAIN ret.value = {"count", "slots"}
               /\ ret.value.count = 0
               /\ AvailabilityAnswered

C9_Witness ==
    /\ ToolPayload
    /\ ret.value.count = 3
    /\ ret.value.date = "2026-02-16"
    /\ ret.value.slots[1].local_time = 5 * 60

\* C10: the payload of the find_slots tool never lists more than
\* MaxPayloadSlots slots.
C10_PayloadCapped ==
    ToolPayload => Len(ret.value.slots) <= MaxPayloadSlots

\* a get_available_slots call that got a parsed body from GET /availability
SlotsFetched ==
    /\ op = "get_available_slots"
    /\ Done
    /\ ResponseTo(1).kind = "json"

\* the entry has a start_time that reads as %H:%M:%S, a duration and a price
WellFormedEntry(entry) ==
    /\ Has(entry, "start_time")
    /\ entry.start_time.hh < 24 /\ entry.start_time.mm < 60
    /\ entry.start_time.ss < 60
    /\ Has(entry, "duration") /\ entry.duration # NoInt
    /\ Has(entry, "price")

\* the (court, start time) pairs of the well-formed entries of an availability
\* response, over the blocks that name their court
RECURSIVE WellFormedOrder(_)
WellFormedOrder(data) ==
    IF data = <<>> THEN <<>>
    ELSE LET block == Head(data)
             entries == IF Has(block, "resource_id") /\ Has(block, "slots")
                        THEN SelectSeq(block.slots, WellFormedEntry)
                        ELSE <<>>
         IN  [i \in DOMAIN entries |->
                 <<block.resource_id, entries[i].start_time>>]
             \o WellFormedOrder(Tail(data))

\* C11: get_available_slots skips an entry whose start_time or duration is
\* missing or unparseable and goes on: the call returns, and its result holds
\* exactly the well-formed entries of the response (of the blocks that name
\* their court), block by block and entry by entry.
C11_BadEntrySkipped ==
    SlotsFetched
    => /\ ret.kind = "return"
       /\ SlotOrder(ret.value) = WellFormedOrder(ResponseTo(1).data)

C11_Witness ==
    /\ SlotsFetched
    /\ LET data == ResponseTo(1).data IN
        /\ Len(data) = 2
        /\ Has(data[1], "slots") /\ Len(data[1].slots) = 3
        /\ ~WellFormedEntry(data[1].slots[2])
        /\ Has(data[2], "slots") /\ Len(data[2].slots) = 2
        /\ ~WellFormedEntry(data[2].slots[1])
    /\ Len(ret.value) = 3

\* C12: get_available_slots(club, date) returns an AvailableSlots object: its
\* club_id is club.club_id, its date the requested date, its slots the
\* fetched slots (an empty list when the response holds none).
C12_ReturnsAvailableSlots ==
    SlotsFetched
    => ret = Returned(AvailableSlots(args.club.club_id, args.date,
                                     ParseBlocks(args.club, args.date,
                                                 ResponseTo(1).data, <<>>)))

\* the courts of the club with the id
CourtsWithId(club, court_id) ==
    {i \in DOMAIN club.courts : club.courts[i].id = court_id}

\* C13: a slot that get_available_slots produces from a block of a court of
\* the club carries the name of that court; a well-formed entry of a block
\* whose resource_id is the id of no court of the club is in the result, with
\* court_name "Unknown Court".
C13_CourtNameOrUnknown ==
    SlotsFetched
    => LET club == args.club
           data == ResponseTo(1).data
       IN  /\ \A i \in DOMAIN ret.value :
                LET slot == ret.value[i]
                    known == CourtsWithId(club, slot.court_id)
                IN  IF known = {}
                    THEN slot.court_name = "Unknown Court"
                    ELSE \E c \in known : slot.court_name = club.courts[c].name
           /\ \A b \in DOMAIN data :
                (/\ Has(data[b], "resource_id")
                 /\ Has(data[b], "slots")
                 /\ CourtsWithId(club, data[b].resource_id) = {})
                => \A e \in DOMAIN data[b].slots :
                      WellFormedEntry(data[b].slots[e])
                      => \E i \in DOMAIN ret.value :
                            /\ ret.value[i].court_id = data[b].resource_id
                            /\ ret.value[i].court_name = "Unknown Court"
                            /\ SlotOrder(ret.value)[i]
                                   = <<data[b].resource_id,
                                       data[b].slots[e].start_time>>

\* a slot of a listed court and a slot of court-9, which the venue does not list
C13_Witness ==
    /\ SlotsFetched
    /\ Len(ret.value) = 3
    /\ ret.value[1].court_id = "court-9"
    /\ ret.value[1].court_name = "Unknown Court"
    /\ ret.value[2].court_id = "court-1"
    /\ ret.value[2].court_name = "Court 1"
    /\ CourtsWithId(args.club, "court-1") # {}

\* C14: when GET /tenants answers exactly one record with a required field
\* missing or malformed (name, id, address timezone, a resource's id, name or
\* size), get_club fails with APIError and with no other error type.
C14_MalformedRecordIsAPIError ==
    (/\ op = "get_club"
     /\ Done
     /\ TenantsAnswered
     /\ Len(ResponseTo(1).data) = 1
     /\ ResponseTo(1).data[1] \in MalformedRecords)
    => /\ ret.kind = "raise"
       /\ ret.error.type = "APIError"

\* C15: when a request of get_club, get_available_slots or find_slots fails
\* (connection error, timeout, non-2xx status, a body that is not JSON), the
\* call fails with APIError, which carries the status code of the transport
\* error when that has one; the transport error itself never leaves the call.
C15_TransportFailureIsAPIError ==
    (/\ op \in {"get_club", "get_available_slots", "find_slots"}
     /\ Done
     /\ requests # <<>>
     /\ ResponseTo(Len(requests)).kind # "json")
    => LET response == ResponseTo(Len(requests))
       IN  ret = Raised(APIError(IF response.kind = "RequestException"
                                 THEN response.status_code
                                 ELSE NoInt))

\* GET /availability of a find_slots call answers 503
C15_Witness ==
    /\ op = "find_slots"
    /\ Done
    /\ Len(requests) = 2
    /\ ResponseTo(2) = RequestException(SomeInt(503))
    /\ ret = Raised(APIError(SomeInt(503)))

\* C16: a find_slots call sends its requests one after the other: at most one
\* GET /tenants, then at most one GET /availability; GET /availability is sent
\* only when GET /tenants was answered with one record that gave a Club, and
\* for that Club; after a request that failed the call sends nothing more.
C16_RequestsInSequence ==
    op \in {"find_slots", "tool_find_slots"}
    => /\ Len(requests) <= 2
       /\ \A n \in DOMAIN requests :
            /\ requests[n].endpoint = IF n = 1 THEN "/tenants" ELSE "/availability"
            /\ n < Len(requests) => ResponseTo(n).kind = "json"
            /\ ResponseTo(n).kind \in {"RequestException", "InvalidJSON"} => Done
            /\ ResponseTo(n) = Pending => ~Done
       /\ Len(requests) = 2
            => /\ Len(ResponseTo(1).data) = 1
               /\ local_club # Nothing
               /\ local_club.club_id = ResponseTo(1).data[1].tenant_id
               /\ requests[2].params.tenant_id = local_club.club_id
       /\ Len(requests) < 2 => local_club = Nothing

\* both requests sent and the second one failed
C16_Witness ==
    /\ op = "find_slots"
    /\ Done
    /\ Len(requests) = 2
    /\ ResponseTo(1).kind = "json"
    /\ ResponseTo(2) = RequestException(NoInt)
    /\ ret.kind = "raise"

\* two digits of a number below 100
TwoDigits(n) == ToString(n \div 10) \o ToString(n % 10)

\* C17: the link create_booking_link returns is a function of its arguments
\* alone: the payments URL with tenant_id, resource_id and duration as given
\* and with start the time argument in which every ":" is "%3A", so start has
\* no colon. Slot.get_link returns that link for the slot's club_id, court_id
\* and duration and its time as YYYY-MM-DDTHH:MM:SS.000Z.
C17_BookingLink ==
    /\ (op = "create_booking_link" /\ Done)
        => /\ ret.kind = "return"
           /\ ret.value.type = "CUSTOMER_MATCH"
           /\ ret.value.tenant_id = args.club_id
           /\ ret.value.resource_id = args.court_id
           /\ ret.value.duration = args.duration
           /\ Len(ret.value.start) = Len(args.time)
           /\ \A i \in DOMAIN args.time :
                ret.value.start[i] = IF args.time[i] = ":" THEN "%3A"
                                     ELSE args.time[i]
           /\ \A i \in DOMAIN ret.value.start : ret.value.start[i] # ":"
    /\ (op = "get_link" /\ Done)
        => LET slot == args.slot IN
           ret = Returned(
                    [type |-> "CUSTOMER_MATCH",
                     tenant_id |-> slot.club_id,
                     resource_id |-> slot.court_id,
                     start |-> <<slot.time.date, "T", TwoDigits(slot.time.hh),
                                 "%3A", TwoDigits(slot.time.mm),
                                 "%3A", TwoDigits(slot.time.ss), ".000Z">>,
                     duration |-> slot.duration])

\* the link of the slot at 08:30:05
C17_Witness ==
    /\ op = "get_link"
    /\ Done
    /\ args.slot.time.hh = 8 /\ args.slot.time.mm = 30 /\ args.slot.time.ss = 5
    /\ ret.value.start[3] = "08"
    /\ ret.value.start[4] = "%3A"
    /\ ret.value.start[6] = "%3A"

\* C18: a local clock time HH:MM on a date in a zone, converted to UTC as
\* find_slots converts it and back to the zone as _print_results converts
\* the instant, is HH:MM again (no day of the model has a DST transition).
C18_RoundTrip ==
    (op = "convert_time" /\ Done)
    => /\ ret.value.local_time = args.minute
       /\ ret.value.utc_clock = ret.value.utc.hh * 60 + ret.value.utc.mm

\* 00:30 in Kolkata is 19:00 UTC of the day before
C18_Witness ==
    /\ op = "convert_time"
    /\ Done
    /\ args.timezone = "Asia/Kolkata"
    /\ args.date = TheDate
    /\ args.minute = 30
    /\ ret.value.utc = DateTime("2026-02-14", 19, 0, 0)
    /\ ret.value.local_time = 30

\* the place of the first slot of the list with the court_name
FirstSlotOf(slots, court_name) ==
    CHOOSE i \in DOMAIN slots :
        /\ slots[i].court_name = court_name
        /\ \A j \in 1..(i - 1) : slots[j].court_name # court_name

\* the printed courts are the court_name values of the slots, each once, in
\* the order of their first slot; under a court are the lines of the slots
\* with its court_name, all of them, in the order of the list
GroupedByCourt(slots, timezone) ==
    /\ {stdout[g].court_name : g \in DOMAIN stdout}
          = {slots[i].court_name : i \in DOMAIN slots}
    /\ \A g, h \in DOMAIN stdout :
          g < h => FirstSlotOf(slots, stdout[g].court_name)
                      < FirstSlotOf(slots, stdout[h].court_name)
    /\ \A g \in DOMAIN stdout :
          LET court_slots ==
                  SelectSeq(slots,
                            LAMBDA slot : slot.court_name = stdout[g].court_name)
          IN  stdout[g].lines = [i \in DOMAIN court_slots |->
                                    print_slot(court_slots[i], timezone)]

\* C19: _print_results groups the slots by court_name: the groups come in the
\* order in which each court_name first occurs in the list, each slot is in
\* exactly one group, and the slots of a group keep the order of the list;
\* so does find_slots when it prints the list it returns.
C19_GroupedInFirstSeenOrder ==
    /\ (op = "_print_results" /\ Done /\ args.timezone \in ValidZones)
        => GroupedByCourt(args.slots, args.timezone)
    /\ (op = "find_slots" /\ Done /\ ret.kind = "return" /\ args.log_slots)
        => GroupedByCourt(ret.value, args.timezone)

\* court-8 and court-9 share the name "Unknown Court": their slots are one
\* group, ahead of the group of the slot between them
C19_Witness ==
    /\ op = "_print_results"
    /\ Done
    /\ Len(args.slots) = 3
    /\ args.slots[1].court_id = "court-8"
    /\ args.slots[2].court_id = "court-1"
    /\ args.slots[3].court_id = "court-9"
    /\ Len(stdout) = 2
    /\ stdout[1].court_name = "Unknown Court"
    /\ Len(stdout[1].lines) = 2
    /\ stdout[2].court_name = "Court 1"

\* the find_slots call that the tool made has raised: on its arguments, in
\* get_club (the only request is answered and the call is over) or at the
\* request of get_available_slots
ToolClientRaised ==
    /\ op = "tool_find_slots"
    /\ Done
    /\ \/ Len(requests) < 2
       \/ ResponseTo(2).kind # "json"

\* C20: the find_slots tool raises nothing, and returns None whenever the
\* find_slots call of its client raises (ValidationError, ClubNotFoundError,
\* MultipleClubsFoundError, APIError or any other error).
C20_ToolReturnsNoneOnError ==
    /\ op = "tool_find_slots" => ret.kind # "raise"
    /\ ToolClientRaised => ret = Returned(Nothing)

\* an error that is not of the client's own: the one record of GET /tenants
\* has a court of size "triple"
C20_Witness ==
    /\ ToolClientRaised
    /\ Len(requests) = 1
    /\ ResponseTo(1).kind = "json"
    /\ Len(ResponseTo(1).data) = 1
    /\ get_club_reply(args.club_slug, None, ResponseTo(1))
          = Raised(PydanticValidationError)
    /\ ret = Returned(Nothing)


\* the queries of the search_clubs calls so far, in order
Queries == [k \in DOMAIN requests |-> requests[k].params.query]

\* the queries are the full name, then prefixes of the name with strictly
\* decreasing word count; every query but the last one returned no club; the
\* list returned when the last query did not fail has at most 5 clubs
QueryCascade ==
    /\ Len(requests) >= 1 => Queries[1] = args.name
    /\ \A k \in 2..Len(requests) :
        /\ Len(Queries[k]) < Len(Queries[k - 1])
        /\ Queries[k] = SubSeq(args.name, 1, Len(Queries[k]))
    /\ \A k \in 1..(Len(requests) - 1) : ResponseTo(k) = Returned(<<>>)
    /\ Done /\ ResponseTo(Len(requests)).kind = "return" =>
            Len(ret.value) <= MaxResults

NoCoordinates ==
    /\ Len(requests) >= 1
    /\ requests[1].endpoint = "geocode"
    /\ ResponseTo(1) = Returned(Nothing)

\* C22: when geocoding finds no coordinates, the search by location yields the
\* empty list of clubs, not None and not an error (the CLI ends with exit
\* code 0), and search_clubs is not called.
C22_NoCoordinatesIsEmptyResult ==
    Done /\ NoCoordinates =>
        /\ Len(requests) = 1
        /\ op = "find_clubs_by_location" => ret = Returned(<<>>)
        /\ op = "cli" => ret = Exit(0)


\* no two courts of the list share their id
DistinctCourtIds(courts) ==
    \A i, j \in DOMAIN courts : courts[i].id = courts[j].id => i = j

\* C23: the court list of every Club that get_club returns has no two courts
\* with the same id, whatever resources the record lists.
C23_NoDuplicateCourtIds ==
    op = "get_club" /\ Done /\ ret.kind = "return" =>
        DistinctCourtIds(ret.value.courts)


HistoryLimit == 20  \* the messages of a history that the agent is to receive

\* the last n elements of the sequence, all of it when it is shorter
LastN(seq, n) ==
    IF Len(seq) <= n THEN seq ELSE SubSeq(seq, Len(seq) - n + 1, Len(seq))

\* C24: the agent receives the 20 most recent messages of the history of the
\* request (all of them when there are fewer), in their order, the last one
\* being the last message of the request.
C24_HistoryTruncated ==
    op = "chat" /\ args.messages # <<>> /\ Len(requests) >= 1 =>
        LET received == requests[1].params.messages IN
        /\ Len(received) <= HistoryLimit
        /\ received = LastN(args.messages, HistoryLimit)
        /\ received[Len(received)] = args.messages[Len(args.messages)]


\* the call of the slots subcommand ended with an error: find_slots raised
\* before its first request, or on the response to one of its requests
SlotsCommandRaised ==
    LET a == ClientArgs IN
    \/ find_slots_check(a.start_time, a.end_time, a.timezone) # Nothing
    \/ get_club_check(a.club_slug, None) # Nothing
    \/ /\ Len(requests) >= 1
       /\ get_club_reply(a.club_slug, None, ResponseTo(1)).kind = "raise"
    \/ /\ Len(requests) = 2
       /\ LET fetched == get_available_slots_reply(local_club, a.date,
                                                   ResponseTo(2))
          IN  \/ fetched.kind = "raise"
              \/ find_slots_finish(a, local_club, fetched.value).kind = "raise"

\* a call of the search subcommand ended with an error
SearchCommandRaised ==
    \E k \in DOMAIN requests : ResponseTo(k).kind = "raise"

\* the subcommand of the CLI run ended with an error
CommandRaised ==
    IF args.command = "slots" THEN SlotsCommandRaised ELSE SearchCommandRaised

\* C25: the CLI exits with code 0 when its subcommand completes without
\* error; when the subcommand raises, it exits with code 1, or with --verbose
\* the error is raised again.
C25_ExitCodes ==
    op = "cli" /\ Done =>
        IF CommandRaised
        THEN IF args.verbose THEN ret.kind = "raise" ELSE ret = Exit(1)
        ELSE ret = Exit(0)


\* the timezone of the current request: the one set_request_region set, the
\* default of the settings when none was set
RequestTimezone ==
    IF context.timezone = Unset THEN default_timezone
    ELSE CHOOSE zone \in context.timezone : TRUE

\* the slots that client.find_slots returned to the tool
ToolSlots ==
    find_slots_finish(ClientArgs, local_club,
                      get_available_slots_reply(local_club, args.date,
                                                ResponseTo(2)).value).value

\* C26: get_timezone returns the timezone of the current request, also before
\* any set_request_region call; and the find_slots tool, called without a
\* timezone after set_request_region, converts its time window from that
\* timezone and gives the local times of its slots in it.
C26_RequestTimezone ==
    /\ op = "get_timezone" /\ Done => ret = Returned(RequestTimezone)
    /\ op = "tool_find_slots" /\ args.timezone = None
       /\ context.timezone # Unset /\ Len(requests) = 2 =>
            /\ requests[2].params =
                   get_available_slots_params(
                       local_club, args.date,
                       find_slots_utc(args.start_time, RequestTimezone, args.date),
                       find_slots_utc(args.end_time, RequestTimezone, args.date))
            /\ ToolPayload /\ ret.value.count > 0 =>
                   \A n \in DOMAIN ret.value.slots :
                       ret.value.slots[n].local_time =
                           UtcToLocalClock(ToolSlots[n].time, RequestTimezone)


\* the start_min or start_max parameter denotes the instant, to the minute
SameInstant(param, time) ==
    /\ param.date = time.date
    /\ param.minute = time.hh * 60 + time.mm

\* C27: the start_min and start_max that find_slots sends to /availability
\* denote the instants of the local start and end of the window on the date
\* in the zone, and start_min is not after start_max; also when the instant
\* in UTC falls on the day before or after the date.
C27_WindowInstants ==
    op \in {"find_slots", "tool_find_slots", "cli"} /\ Len(requests) = 2 =>
        LET a == ClientArgs
            params == requests[2].params
        IN  /\ \A m \in a.start_time :
                   SameInstant(params.start_min, LocalToUtc(m, a.timezone, a.date))
            /\ \A m \in a.end_time :
                   SameInstant(params.start_max, LocalToUtc(m, a.timezone, a.date))
            /\ a.start_time # NoInt /\ a.end_time # NoInt =>
                   \/ params.start_min.date # params.start_max.date
                   \/ params.start_min.minute <= params.start_max.minute


\* a filter_slots call returned: filtering its result again with the same
\* arguments gives the result, and so does filtering the input by court_type
\* and then by duration, or by duration and then by court_type
FilterAlgebra ==
    op = "filter_slots" /\ Done =>
        LET club == args.club
            A == args.available_slots
            R == ret.value
        IN  /\ filter_slots(club, R, args.court_type, args.duration) = R
            /\ filter_slots(club, filter_slots(club, A, args.court_type, NoInt),
                            None, args.duration) = R
            /\ filter_slots(club, filter_slots(club, A, None, args.duration),
                            args.court_type, NoInt) = R

\* C28: filter_slots leaves the club and the input list as they were, is
\* idempotent, and its two filters compose in either order to one call with
\* both.
C28_FilterIsPure ==
    /\ []FilterAlgebra
    /\ [][op = "filter_slots" => args' = args]_vars

\* a call with both filters kept a slot and dropped one
C28_Witness ==
    /\ op = "filter_slots"
    /\ Done
    /\ args.court_type # None
    /\ args.duration # NoInt
    /\ ret.value # <<>>
    /\ Len(ret.value) < Len(args.available_slots)


\* C29: a call that runs in `with PlaytomicClient() as client:` (the three
\* tools and the CLI) has no session before it constructs its client, an open
\* one while it runs, and its session is closed once it returned, whether the block ended normally or by
\* an error; the error is not suppressed: a CLI run whose subcommand raised
\* does not end with exit code 0.
C29_SessionClosed ==
    UsesWith =>
        /\ pc = "call" => session = "none"
        /\ pc \notin {"call", "done"} => session = new_session
        /\ Done => session = close(new_session)
        /\ op = "cli" /\ Done /\ CommandRaised => ret # Exit(0)

\* a CLI run opened its session, sent a request and ended with an error
C29_Witness ==
    /\ op = "cli"
    /\ Done
    /\ Len(requests) >= 1
    /\ CommandRaised
    /\ ret = Exit(1)
    /\ session = "closed"


\* the errors of client/exceptions.py
Taxonomy ==
    {"ValidationError", "ClubNotFoundError", "MultipleClubsFoundError", "APIError"}

\* C30: PlaytomicClient.find_slots fails only with errors of the taxonomy; a
\* call with no time window and no timezone that got its two responses
\* parsed returns its slot list, whatever log_slots is.
C30_OnlyTaxonomyErrors ==
    op = "find_slots" /\ Done =>
        /\ ret.kind = "raise" => ret.error.type \in Taxonomy
        /\ /\ args.start_time = NoInt
           /\ args.end_time = NoInt
           /\ args.timezone = None
           /\ Len(requests) = 2
           /\ get_available_slots_reply(local_club, args.date,
                                        ResponseTo(2)).kind = "return"
           => ret.kind = "return"

=============================================================================
